---- MODULE Spec2Model ----
(***************************************************************************)
(* Model of the InteractiveCanvas React component: the pointer handlers    *)
(* startDrawing / draw / stopDrawing, handleClearCanvas, the toolbar's     *)
(* setActiveTool, the three gesture detectors and the 500 ms timer of the  *)
(* second source variant.                                                  *)
(*                                                                         *)
(* Two variants of the component exist in the sources:                     *)
(*   "canvas"  src/src/components/InteractiveCanvas.tsx                    *)
(*   "part0"   src/unnamed/part_000                                        *)
(* The variable `variant` is fixed by Init and selects the code modelled.  *)
(*                                                                         *)
(* The handlers are useCallback closures.  A closure reads the state of    *)
(* the render in which it was last re-created, i.e. the last render in     *)
(* which one of its dependencies changed.  State read by a handler but     *)
(* missing from its dependency array is therefore modelled by a separate   *)
(* "captured" variable (draw_gesturePoints, draw_magicToolMode,            *)
(* stop_magicToolMode) that Render refreshes exactly when a dependency     *)
(* changes.  Every event is handled to completion and followed by the      *)
(* re-render before the next event is taken.                               *)
(*                                                                         *)
(* Arithmetic: coordinates are integers, in 1/Unit of a canvas pixel; the  *)
(* thresholds of the code, given in pixels, are multiplied by Unit.        *)
(* Comparisons of distances are done on squares (exact); sums of square    *)
(* roots use ISqrt on values scaled by 10^4 (two decimals); angle tests    *)
(* compare cos^2 with rational approximations of the thresholds.           *)
(***************************************************************************)
EXTENDS Integers, Sequences, FiniteSets, TLC

VARIABLES
  variant,            \* which source file is modelled
  activeTool,         \* useState activeTool
  annotations,        \* useState annotations (the AnnotationSet)
  isDrawing,          \* useState isDrawing
  lastPos,            \* useState lastPos
  gesturePoints,      \* useState gesturePoints (the StrokeWindow)
  magicToolMode,      \* useState magicToolMode (MagicState)
  draw_gesturePoints, \* gesturePoints as captured by the draw closure
  draw_magicToolMode, \* magicToolMode as captured by the draw closure
  stop_magicToolMode, \* magicToolMode as captured by the stopDrawing closure
  timers,             \* pending setTimeout callbacks (part0 only)
  strokeNo,           \* number of strokes started so far
  moves,              \* number of samples appended by draw so far
  calls,              \* arguments of the onAnnotationsChange calls of the last event
  classified,         \* window handed to the detectors by the last event
  gestured,           \* a gesture transition happened in the current stroke
  selectedTool        \* the tool last selected in the toolbar

vars == <<variant, activeTool, annotations, isDrawing, lastPos, gesturePoints,
          magicToolMode, draw_gesturePoints, draw_magicToolMode,
          stop_magicToolMode, timers, strokeNo, moves, calls, classified,
          gestured, selectedTool>>

----------------------------------------------------------------------------
(* Bounds and input sets *)

\* strokes and pointer moves per run, with every tool and every input
MaxStrokes == 1
MaxMoves == 2
\* the runs that build up a history of annotations
HistoryStrokes == 2
HistoryMoves == 1
\* the runs with strokes long enough for a gesture
GestureStrokes == 1
GestureMoves == 5
\* the runs in which a timer outlives its stroke
TimerStrokes == 2
\* the run that fills the window
WindowStrokes == 1
WindowMoves == 21
\* the run with two gestures in one stroke
CooldownStrokes == 1
CooldownMoves == 12
\* the longest window built sample by sample for the detectors alone
DetectLen == 12
\* the runs in which the clock and the random generator vary
IdStrokes == 2
IdMoves == 1

Variants == {"canvas", "part0"}
Tools == {"magic", "high", "medium", "low", "neutral", "eraser", "pan"}
MagicModes == {"medium", "high", "low"}

\* x and y are floating-point pixels in the code; the model keeps them in
\* 1/Unit pixel
Unit == 4

\* pointer positions in canvas space: (0, 0), (40, 0) and (40, 40) pixels
Points == {<<0, 0>>, <<40 * Unit, 0>>, <<40 * Unit, 40 * Unit>>}
Origin == {<<0, 0>>}
\* (0, 0) and (40, 40) pixels
Diagonal == {<<0, 0>>, <<40 * Unit, 40 * Unit>>}
\* e.pressure in tenths; 0 = the device reports no pressure
Pressures == {0, 7}
GesturePressures == {0}
HardPressures == {7}
GestureTools == {"magic", "neutral"}
\* values of Math.random()
Randoms == {0, 1}

Sample(p, s) == [x |-> p[1], y |-> p[2], stroke |-> s]

----------------------------------------------------------------------------
(* Arithmetic helpers *)

Abs(a) == IF a < 0 THEN 0 - a ELSE a
Max2(a, b) == IF a >= b THEN a ELSE b
Min2(a, b) == IF a <= b THEN a ELSE b

RECURSIVE SqrtSearch(_, _, _)
SqrtSearch(n, lo, hi) ==
  IF lo >= hi THEN lo
  ELSE LET mid == (lo + hi + 1) \div 2
       IN IF mid * mid <= n THEN SqrtSearch(n, mid, hi)
          ELSE SqrtSearch(n, lo, mid - 1)

\* floor of the square root
ISqrt(n) == SqrtSearch(n, 0, 46340)

\* Math.sqrt(dx*dx + dy*dy) in hundredths of the unit of dx and dy
Dist100(dx, dy) == ISqrt(10000 * (dx * dx + dy * dy))

RECURSIVE GCD(_, _)
GCD(a, b) == IF b = 0 THEN a ELSE GCD(b, a % b)

\* the direction Math.atan2(dy, dx) stands for, as the shortest integer
\* vector of that direction.  Math.atan2(0, 0) is 0: a zero vector has the
\* direction of the +x axis
Dir(dx, dy) ==
  IF dx = 0 /\ dy = 0 THEN <<1, 0>>
  ELSE LET g == GCD(Abs(dx), Abs(dy)) IN <<dx \div g, dy \div g>>
Dot(u, v) == u[1] * v[1] + u[2] * v[2]
Norm2(u) == u[1] * u[1] + u[2] * u[2]

\* angleDiff, i.e. |atan2(v) - atan2(u)| folded into [0, pi], is the angle
\* between u and v.  AngleGT: angleDiff > theta, where cos(theta) =
\* s * sqrt(cn / cd) with s = 1 or -1.  AngleLT: angleDiff < theta.
AngleGT(u, v, s, cn, cd) ==
  LET d == Dot(u, v)
      nn == Norm2(u) * Norm2(v)
  IN IF s = 1 THEN d < 0 \/ cd * d * d < cn * nn
     ELSE d < 0 /\ cd * d * d > cn * nn

AngleLT(u, v, s, cn, cd) ==
  LET d == Dot(u, v)
      nn == Norm2(u) * Norm2(v)
  IN IF s = 1 THEN d > 0 /\ cd * d * d > cn * nn
     ELSE d >= 0 \/ cd * d * d < cn * nn

SeqMinX(pts) == CHOOSE m \in {pts[i].x : i \in 1..Len(pts)} :
                  \A i \in 1..Len(pts) : m <= pts[i].x
SeqMaxX(pts) == CHOOSE m \in {pts[i].x : i \in 1..Len(pts)} :
                  \A i \in 1..Len(pts) : m >= pts[i].x
SeqMinY(pts) == CHOOSE m \in {pts[i].y : i \in 1..Len(pts)} :
                  \A i \in 1..Len(pts) : m <= pts[i].y
SeqMaxY(pts) == CHOOSE m \in {pts[i].y : i \in 1..Len(pts)} :
                  \A i \in 1..Len(pts) : m >= pts[i].y

RECURSIVE SumTo(_, _)
\* f[1] + ... + f[n]
SumTo(f, n) == IF n = 0 THEN 0 ELSE f[n] + SumTo(f, n - 1)

\* closureDistance squared
Closure2(pts) ==
  LET a == pts[1]
      b == pts[Len(pts)]
  IN (b.x - a.x) * (b.x - a.x) + (b.y - a.y) * (b.y - a.y)

\* direction of the chord from pts[i] to pts[j] (1-based)
Chord(pts, i, j) == <<pts[j].x - pts[i].x, pts[j].y - pts[i].y>>
ChordDir(pts, i, j) == Dir(pts[j].x - pts[i].x, pts[j].y - pts[i].y)

\* cornerPositions.some(pos => Math.abs(i - pos) < 4)
TooClose(positions, i) ==
  \E k \in 1..Len(positions) : Abs(i - positions[k]) < 4

----------------------------------------------------------------------------
(* The three gesture detectors.  v is the variant; pts is a non-empty      *)
(* sequence of samples.  Indices are 1-based (the code's i is index i+1).  *)

\* the circle detector running from four samples on
MinCirclePointsFour(v) == 4

\* if (points.length < N) return false, the first line of each detector
MinCirclePoints(v) == IF v = "canvas" THEN 6 ELSE 12
MinSquarePoints(v) == IF v = "canvas" THEN 8 ELSE 12
MinZigZagPoints(v) == 6

\* curvatureScore of the canvas variant: interior triplets whose turn angle
\* lies in (0.2, 2.0) rad; cos^2(0.2) ~ 24/25, cos^2(2.0) ~ 13/75
CurvatureScore(pts) ==
  Cardinality({i \in 2..(Len(pts) - 1) :
     LET u == ChordDir(pts, i - 1, i)
         w == ChordDir(pts, i, i + 1)
     IN AngleGT(u, w, 1, 24, 25) /\ AngleLT(u, w, -1, 13, 75)})

detectCircleGesture(v, pts) ==
  LET n == Len(pts)
      minX == SeqMinX(pts)
      maxX == SeqMaxX(pts)
      minY == SeqMinY(pts)
      maxY == SeqMaxY(pts)
      width == maxX - minX
      height == maxY - minY
      \* radius of sample i around the box centre, in 1/200 of 1/Unit pixel
      radius == [i \in 1..n |->
                  Dist100(2 * pts[i].x - (minX + maxX),
                          2 * pts[i].y - (minY + maxY))]
      sumRadius == SumTo(radius, n)
      \* n * n * radiusVariance, same unit
      dev == [i \in 1..n |-> Abs(n * radius[i] - sumRadius)]
      sumDev == SumTo(dev, n)
  IN IF n < MinCirclePoints(v) THEN FALSE
     ELSE IF v = "canvas"
     THEN IF Closure2(pts) > (50 * Unit) * (50 * Unit) THEN FALSE
          ELSE IF width < 25 * Unit \/ height < 25 * Unit THEN FALSE
          ELSE IF Max2(width, height) > 2 * Min2(width, height) THEN FALSE
          ELSE /\ 2 * sumDev < n * sumRadius
               /\ sumRadius > 15 * Unit * 200 * n
               /\ 5 * CurvatureScore(pts) > n
     ELSE IF Closure2(pts) > (60 * Unit) * (60 * Unit) THEN FALSE
          ELSE IF width < 40 * Unit \/ height < 40 * Unit THEN FALSE
          ELSE IF 10 * Max2(width, height) > 18 * Min2(width, height)
               THEN FALSE
          ELSE /\ 4 * sumDev < n * sumRadius
               /\ sumRadius > 25 * Unit * 200 * n

RECURSIVE SquareCorners(_, _, _, _)
\* the corner loop from (0-based) i on; positions are the corners counted
SquareCorners(v, pts, i, positions) ==
  IF i >= Len(pts) - 3 THEN positions
  ELSE LET c1 == Chord(pts, i - 3 + 1, i + 1)
           c2 == Chord(pts, i + 1, i + 3 + 1)
           short == IF v = "canvas"
                    THEN \/ Norm2(c1) < (8 * Unit) * (8 * Unit)
                         \/ Norm2(c2) < (8 * Unit) * (8 * Unit)
                    ELSE \/ Norm2(c1) < (15 * Unit) * (15 * Unit)
                         \/ Norm2(c2) < (15 * Unit) * (15 * Unit)
           \* cornerThreshold: pi/4 (cos^2 = 1/2), pi/2.5 (cos^2 ~ 2/21)
           sharp == IF v = "canvas"
                    THEN AngleGT(Dir(c1[1], c1[2]), Dir(c2[1], c2[2]), 1, 1, 2)
                    ELSE AngleGT(Dir(c1[1], c1[2]), Dir(c2[1], c2[2]), 1, 2, 21)
           counted == /\ ~short
                      /\ sharp
                      /\ (v = "canvas" => ~TooClose(positions, i))
           next == IF counted THEN Append(positions, i) ELSE positions
       \* (the test makes TLC evaluate next before the call)
       IN IF Len(next) >= 0 THEN SquareCorners(v, pts, i + 1, next)
          ELSE next

detectSquareGesture(v, pts) ==
  LET n == Len(pts)
      width == SeqMaxX(pts) - SeqMinX(pts)
      height == SeqMaxY(pts) - SeqMinY(pts)
      big == Max2(width, height)
      small == Min2(width, height)
      corners == Len(SquareCorners(v, pts, 3, <<>>))
  IN IF n < MinSquarePoints(v) THEN FALSE
     ELSE IF v = "canvas"
     THEN IF width < 25 * Unit \/ height < 25 * Unit THEN FALSE
          ELSE IF 2 * big > 5 * small THEN FALSE
          ELSE IF 4 * Closure2(pts) > big * big THEN FALSE
          ELSE corners >= 2 /\ corners <= 8
     ELSE IF width < 40 * Unit \/ height < 40 * Unit THEN FALSE
          ELSE IF 10 * big > 16 * small THEN FALSE
          ELSE IF 100 * Closure2(pts) > 9 * big * big THEN FALSE
          ELSE corners >= 3

\* totalDistance in hundredths of 1/Unit pixel
TotalDistance(pts) ==
  SumTo([i \in 1..(Len(pts) - 1) |->
           Dist100(pts[i + 1].x - pts[i].x, pts[i + 1].y - pts[i].y)],
        Len(pts) - 1)

RECURSIVE ZigZagChanges(_, _, _, _)
\* the direction-change loop from (0-based) i on
ZigZagChanges(v, pts, i, positions) ==
  IF v = "canvas"
  THEN IF i >= Len(pts) - 2 THEN positions
       ELSE LET c1 == Chord(pts, i - 2 + 1, i + 1)
                c2 == Chord(pts, i + 1, i + 2 + 1)
                short == \/ Norm2(c1) < (8 * Unit) * (8 * Unit)
                         \/ Norm2(c2) < (8 * Unit) * (8 * Unit)
                u == Dir(c1[1], c1[2])
                w == Dir(c2[1], c2[2])
                \* pi/6 < angleDiff < 5*pi/6  (cos^2 = 3/4)
                sharp == AngleGT(u, w, 1, 3, 4) /\ AngleLT(u, w, -1, 3, 4)
                counted == ~short /\ sharp /\ ~TooClose(positions, i)
                next == IF counted THEN Append(positions, i) ELSE positions
            IN IF Len(next) >= 0 THEN ZigZagChanges(v, pts, i + 1, next)
               ELSE next
  ELSE IF i >= Len(pts) - 1 THEN positions
       ELSE LET c1 == Chord(pts, i - 1 + 1, i + 1)
                c2 == Chord(pts, i + 1, i + 1 + 1)
                short == \/ (Abs(c1[1]) < 8 * Unit /\ Abs(c1[2]) < 8 * Unit)
                         \/ (Abs(c2[1]) < 8 * Unit /\ Abs(c2[2]) < 8 * Unit)
                \* angleDiff > pi/4
                sharp == AngleGT(Dir(c1[1], c1[2]), Dir(c2[1], c2[2]), 1, 1, 2)
                counted == ~short /\ sharp
                next == IF counted THEN Append(positions, i) ELSE positions
            IN IF Len(next) >= 0 THEN ZigZagChanges(v, pts, i + 1, next)
               ELSE next

\* alternatingScore of the canvas variant over changePositions (0-based)
AlternatingScore(pts, cp) ==
  IF Len(cp) < 2 THEN 0
  ELSE Cardinality({k \in 2..Len(cp) :
         LET pos1 == cp[k - 1] + 1
             pos2 == cp[k] + 1
             nxt == IF k + 1 <= Len(cp) THEN cp[k + 1] + 1 ELSE Len(pts)
         IN AngleGT(ChordDir(pts, pos1, pos2), ChordDir(pts, pos2, nxt),
                    1, 1, 2)})

detectZigZagGesture(v, pts) ==
  LET n == Len(pts)
      cp == ZigZagChanges(v, pts, 2, <<>>)
      directionChanges == Len(cp)
  IN IF n < MinZigZagPoints(v) THEN FALSE
     ELSE IF v = "canvas"
     THEN IF TotalDistance(pts) < 40 * Unit * 100 THEN FALSE
          ELSE /\ directionChanges >= 2
               /\ directionChanges <= 10
               /\ AlternatingScore(pts, cp) >= 1
     ELSE IF TotalDistance(pts) < 80 * Unit * 100 THEN FALSE
          ELSE directionChanges >= 3

\* the chain with the circle tested first
ClassifyGestureCircleFirst(v, pts) ==
  IF detectCircleGesture(v, pts) THEN "high"
  ELSE IF detectZigZagGesture(v, pts) THEN "low"
  ELSE IF detectSquareGesture(v, pts) THEN "medium"
  ELSE "none"

\* a chain that gives no result while the mode is medium
ClassifyGestureByMode(v, pts) ==
  IF magicToolMode = "medium" THEN "none"
  ELSE IF detectZigZagGesture(v, pts) THEN "low"
  ELSE IF detectCircleGesture(v, pts) THEN "high"
  ELSE IF detectSquareGesture(v, pts) THEN "medium"
  ELSE "none"

\* the if / else-if chain of draw: zig-zag, then circle, then square
ClassifyGesture(v, pts) ==
  IF detectZigZagGesture(v, pts) THEN "low"
  ELSE IF detectCircleGesture(v, pts) THEN "high"
  ELSE IF detectSquareGesture(v, pts) THEN "medium"
  ELSE "none"

\* a mode outside the three categories below the threshold
getMagicToolModeIdle(pressure, currentTool) ==
  IF currentTool # "magic" THEN "medium"
  ELSE IF pressure >= 7 THEN "high"
  ELSE "neutral"

\* the high mode only above the threshold
getMagicToolModeAbove(pressure, currentTool) ==
  IF currentTool # "magic" THEN "medium"
  ELSE IF pressure > 7 THEN "high"
  ELSE "medium"

\* pressure in tenths
getMagicToolMode(pressure, currentTool) ==
  IF currentTool # "magic" THEN "medium"
  ELSE IF pressure >= 7 THEN "high"
  ELSE "medium"

\* the pressure as the event reports it
EffectivePressureAsReported(pr) == pr

\* e.pressure || 0.5
EffectivePressure(pr) == IF pr = 0 THEN 5 ELSE pr

----------------------------------------------------------------------------
(* Point paths handed to the detectors: sequences of positions in 1/Unit   *)
(* pixel.                                                                  *)

\* the samples of a path
PathOf(positions) == [i \in 1..Len(positions) |-> Sample(positions[i], 0)]

\* 40 points on a circle of radius 50 pixels around (0, 0), at the angles
\* 2*pi*k/39 (the last point is the first one again) and 2*pi*k/39.5 (the
\* last point is 4 pixels from the first), rounded to 1/4 pixel
CircleClosed ==
  <<
     <<200, 0>>, <<197, 32>>, <<190, 63>>, <<177, 93>>, <<160, 120>>,
     <<139, 144>>, <<114, 165>>, <<86, 181>>, <<56, 192>>, <<24, 199>>,
     <<-8, 200>>, <<-40, 196>>, <<-71, 187>>, <<-100, 173>>, <<-126, 155>>,
     <<-150, 133>>, <<-169, 107>>, <<-184, 78>>, <<-194, 48>>, <<-199, 16>>,
     <<-199, -16>>, <<-194, -48>>, <<-184, -78>>, <<-169, -107>>, <<-150, -133>>,
     <<-126, -155>>, <<-100, -173>>, <<-71, -187>>, <<-40, -196>>, <<-8, -200>>,
     <<24, -199>>, <<56, -192>>, <<86, -181>>, <<114, -165>>, <<139, -144>>,
     <<160, -120>>, <<177, -93>>, <<190, -63>>, <<197, -32>>, <<200, 0>>
  >>

CircleNearlyClosed ==
  <<
     <<200, 0>>, <<197, 32>>, <<190, 63>>, <<178, 92>>, <<161, 119>>,
     <<140, 143>>, <<116, 163>>, <<88, 179>>, <<59, 191>>, <<28, 198>>,
     <<-4, 200>>, <<-36, 197>>, <<-66, 189>>, <<-95, 176>>, <<-122, 158>>,
     <<-146, 137>>, <<-165, 112>>, <<-181, 85>>, <<-192, 55>>, <<-199, 24>>,
     <<-200, -8>>, <<-196, -40>>, <<-187, -70>>, <<-174, -99>>, <<-156, -125>>,
     <<-134, -148>>, <<-109, -168>>, <<-81, -183>>, <<-51, -193>>, <<-20, -199>>,
     <<12, -200>>, <<43, -195>>, <<74, -186>>, <<102, -172>>, <<128, -153>>,
     <<151, -131>>, <<170, -106>>, <<184, -77>>, <<194, -47>>, <<199, -16>>
  >>

CirclePaths == {PathOf(CircleClosed), PathOf(CircleNearlyClosed)}

\* a closed rectangle of w by h, m samples per edge, from (0, 0) and back
RectanglePath(w, h, m) ==
  [i \in 1..(4 * m + 1) |->
     LET e == (i - 1) \div m
         k == (i - 1) % m
     IN IF e = 0 THEN Sample(<<(w * k) \div m, 0>>, 0)
        ELSE IF e = 1 THEN Sample(<<w, (h * k) \div m>>, 0)
        ELSE IF e = 2 THEN Sample(<<w - (w * k) \div m, h>>, 0)
        ELSE IF e = 3 THEN Sample(<<0, h - (h * k) \div m>>, 0)
        ELSE Sample(<<0, 0>>, 0)]

\* rectangles of 40 and 60 pixels, 4 and 5 samples per edge
RectanglePaths ==
  {RectanglePath(w, h, m) : w \in {40 * Unit, 60 * Unit},
                            h \in {40 * Unit, 60 * Unit}, m \in {4, 5}}

\* t segments going up and down in turn, each a high and b wide, m samples
\* per segment, from (0, 0)
SawtoothPath(t, a, b, m) ==
  [i \in 1..(t * m + 1) |->
     LET seg == (i - 1) \div m
         k == (i - 1) % m
         y0 == IF seg % 2 = 0 THEN 0 ELSE a
         dy == IF seg % 2 = 0 THEN (a * k) \div m ELSE 0 - (a * k) \div m
     IN Sample(<<seg * b + (b * k) \div m, y0 + dy>>, 0)]

\* saw teeth 20 and 40 pixels high with a vertex every 20 pixels, 6 and 8
\* segments, sampled at the vertices only, at the mid-points too, or four
\* times per segment
SawtoothPaths ==
  {SawtoothPath(t, a, 20 * Unit, m) :
     t \in {6, 8}, a \in {20 * Unit, 40 * Unit}, m \in {1, 2, 4}}

\* a straight line from (0, 0) to (d, d): n samples g apart at the start
\* (g = 0: the pointer at rest), a fast move, and n samples g apart up to
\* the end
LinePath(d, n, g) ==
  [i \in 1..(2 * n) |->
     LET c == IF i <= n THEN (i - 1) * g ELSE d - (2 * n - i) * g
     IN Sample(<<c, c>>, 0)]

\* a straight line from (0, 0) to (d, d) in n equal steps
EvenLinePath(d, n) ==
  [i \in 1..(n + 1) |-> Sample(<<(d * (i - 1)) \div n, (d * (i - 1)) \div n>>, 0)]

\* diagonal strokes of 30, 42 and 60 pixels each way, in 12 equal steps or
\* with 3 or 6 samples at either end, one pixel apart or at rest
LinePaths ==
  {LinePath(d, n, g) : d \in {30 * Unit, 42 * Unit, 60 * Unit},
                       n \in {3, 6}, g \in {0, Unit}}
    \cup {EvenLinePath(d, 12) : d \in {30 * Unit, 42 * Unit, 60 * Unit}}

ShapePaths == CirclePaths \cup RectanglePaths \cup SawtoothPaths \cup LinePaths

----------------------------------------------------------------------------
(* State machine *)

\* an annotation anchored at the corner of the canvas
AnnotationUnanchored(id, type, pressure, pos) ==
  [id |-> id, type |-> type, pressure |-> pressure, x |-> 0, y |-> 0]

\* CanvasAnnotation.  id is the pair <<Date.now(), Math.random()>> the id
\* string `annotation-${Date.now()}-${Math.random()}` is built from
Annotation(id, type, pressure, pos) ==
  [id |-> id, type |-> type, pressure |-> pressure, x |-> pos[1], y |-> pos[2]]

Init ==
  /\ variant \in Variants
  /\ activeTool = "magic"
  /\ annotations = <<>>
  /\ isDrawing = FALSE
  /\ lastPos = <<0, 0>>
  /\ gesturePoints = <<>>
  /\ magicToolMode = "medium"
  /\ draw_gesturePoints = <<>>
  /\ draw_magicToolMode = "medium"
  /\ stop_magicToolMode = "medium"
  /\ timers = {}
  /\ strokeNo = 0
  /\ moves = 0
  /\ calls = <<>>
  /\ classified = <<>>
  /\ gestured = FALSE
  /\ selectedTool = "magic"

\* dependency array of draw: [isDrawing, activeTool, magicToolMode] in the
\* canvas variant, [isDrawing, activeTool] in part0
DrawDepsChanged ==
  \/ isDrawing' # isDrawing
  \/ activeTool' # activeTool
  \/ (variant = "canvas" /\ magicToolMode' # magicToolMode)

\* stopDrawing re-created without regard to lastPos
StopDepsWithoutLastPos(lastPosSet, annotationsSet) ==
  \/ isDrawing' # isDrawing
  \/ activeTool' # activeTool
  \/ annotationsSet

\* dependency array of stopDrawing: [isDrawing, activeTool, lastPos,
\* annotations, onAnnotationsChange]; setLastPos and setAnnotations store a
\* fresh object, which always counts as a change
StopDepsChanged(lastPosSet, annotationsSet) ==
  \/ isDrawing' # isDrawing
  \/ activeTool' # activeTool
  \/ lastPosSet
  \/ annotationsSet

\* the re-render after an event: closures whose dependencies changed are
\* re-created and capture the new state
Render(lastPosSet, annotationsSet) ==
  /\ draw_gesturePoints' =
       IF DrawDepsChanged THEN gesturePoints' ELSE draw_gesturePoints
  /\ draw_magicToolMode' =
       IF DrawDepsChanged THEN magicToolMode' ELSE draw_magicToolMode
  /\ stop_magicToolMode' =
       IF StopDepsChanged(lastPosSet, annotationsSet)
       THEN magicToolMode' ELSE stop_magicToolMode

\* a start that keeps the low mode
StartMagicModeKeepingLow(tool, pressure, mode) ==
  IF tool = "magic" /\ mode # "low" THEN getMagicToolMode(pressure, tool)
  ELSE mode

\* the mode set from the pressure whatever the tool
StartMagicModeAnyTool(tool, pressure, mode) ==
  getMagicToolMode(pressure, "magic")

\* if (activeTool === 'magic') setMagicToolMode(getMagicToolMode(...))
StartMagicMode(tool, pressure, mode) ==
  IF tool = "magic" THEN getMagicToolMode(pressure, tool) ELSE mode

\* a pointerdown that begins a stroke under the pan tool as under any other
startDrawingAnyTool(p, pr, flipped) ==
  /\ calls' = <<>>
  /\ classified' = <<>>
  /\ isDrawing' = TRUE
  /\ lastPos' = p
  /\ activeTool' = IF flipped THEN "eraser" ELSE activeTool
  /\ magicToolMode' =
       StartMagicMode(activeTool, EffectivePressure(pr), magicToolMode)
  /\ strokeNo' = strokeNo + 1
  /\ gesturePoints' = <<Sample(p, strokeNo')>>
  /\ gestured' = FALSE
  /\ Render(TRUE, FALSE)
  /\ UNCHANGED <<variant, annotations, timers, moves, selectedTool>>

\* onPointerDown; flipped: pointerType is 'pen' and |twist| > 90
startDrawing(p, pr, flipped) ==
  /\ calls' = <<>>
  /\ classified' = <<>>
  /\ IF activeTool = "pan"
     THEN /\ UNCHANGED <<isDrawing, lastPos, activeTool, magicToolMode,
                         gesturePoints, strokeNo, gestured>>
          /\ Render(FALSE, FALSE)
     ELSE /\ isDrawing' = TRUE
          /\ lastPos' = p
          /\ activeTool' = IF flipped THEN "eraser" ELSE activeTool
          /\ magicToolMode' =
               StartMagicMode(activeTool, EffectivePressure(pr), magicToolMode)
          /\ strokeNo' = strokeNo + 1
          /\ gesturePoints' = <<Sample(p, strokeNo')>>
          /\ gestured' = FALSE
          /\ Render(TRUE, FALSE)
  /\ UNCHANGED <<variant, annotations, timers, moves, selectedTool>>

\* the window draw hands to the detectors: newGesturePoints
NewGesturePoints(p) == Append(draw_gesturePoints, Sample(p, strokeNo))

\* newGesturePoints.slice(-20)
Slice20(pts) ==
  IF Len(pts) <= 20 THEN pts ELSE SubSeq(pts, Len(pts) - 20 + 1, Len(pts))

\* the length from which draw runs the detectors
DetectFrom == IF variant = "canvas" THEN 4 ELSE 6

\* onPointerMove
draw(p, pr) ==
  /\ calls' = <<>>
  /\ IF ~isDrawing \/ activeTool = "pan"
     THEN /\ UNCHANGED <<lastPos, magicToolMode, gesturePoints, timers,
                         gestured, moves>>
          /\ classified' = <<>>
          /\ isDrawing' = isDrawing
          /\ activeTool' = activeTool
          /\ Render(FALSE, FALSE)
     ELSE LET new == NewGesturePoints(p)
              run == activeTool = "magic" /\ Len(new) >= DetectFrom
          \* newMode: the result of the detector chain, computed once
          IN \E newMode \in {IF run THEN ClassifyGesture(variant, new)
                                    ELSE "none"} :
             LET switch == newMode # "none" /\ newMode # draw_magicToolMode
             IN
             /\ classified' = IF run THEN new ELSE <<>>
             /\ magicToolMode' = IF switch THEN newMode ELSE magicToolMode
             /\ gesturePoints' =
                  IF variant = "canvas"
                  THEN IF switch THEN <<Sample(p, strokeNo)>> ELSE new
                  ELSE IF switch THEN <<>> ELSE Slice20(new)
             /\ timers' =
                  IF variant = "part0" /\ switch
                  THEN timers \cup {[pos |-> p, stroke |-> strokeNo]}
                  ELSE timers
             /\ gestured' = (gestured \/ switch)
             /\ lastPos' = p
             /\ moves' = moves + 1
             /\ isDrawing' = isDrawing
             /\ activeTool' = activeTool
             /\ Render(TRUE, FALSE)
  /\ UNCHANGED <<variant, annotations, strokeNo, selectedTool>>

\* annotationType taken from the magic mode whatever the tool
AnnotationTypeByMode(tool, magicMode) == magicMode

\* annotationType without the branch for the fixed-category tools
AnnotationTypeMagicOnly(tool, magicMode) ==
  IF tool = "magic" THEN magicMode ELSE "medium"

\* annotationType of stopDrawing
AnnotationTypeOf(tool, magicMode) ==
  IF tool = "magic" THEN magicMode
  ELSE IF tool # "eraser" /\ tool # "pan" THEN tool
  ELSE "medium"

\* recording also skipped for the neutral tool
RecordsExceptNeutral(effectiveTool) ==
  effectiveTool # "eraser" /\ effectiveTool # "neutral"

\* if (effectiveTool !== 'eraser')
Records(effectiveTool) == effectiveTool # "eraser"

\* the new annotation replaces the earlier ones
NewAnnotationsOnlyLatest(anns, annotation) == <<annotation>>

\* newAnnotations = [...annotations, annotation]
NewAnnotations(anns, annotation) == Append(anns, annotation)

\* the callback receives the new annotation only
CallbackArgDelta(newAnnotations, annotation) == <<annotation>>

\* the argument of onAnnotationsChange in stopDrawing
CallbackArg(newAnnotations, annotation) == newAnnotations

\* a stroke end that does not return when no stroke is in progress
stopDrawingUnguarded(pr, id) ==
  /\ classified' = <<>>
  /\ LET annotation ==
           Annotation(id, AnnotationTypeOf(activeTool, stop_magicToolMode),
                      EffectivePressure(pr), lastPos)
         record == Records(activeTool)
         newAnnotations == NewAnnotations(annotations, annotation)
     IN /\ isDrawing' = FALSE
        /\ gesturePoints' = <<>>
        /\ annotations' = IF record THEN newAnnotations ELSE annotations
        /\ calls' = IF record
                    THEN <<CallbackArg(newAnnotations, annotation)>>
                    ELSE <<>>
        /\ activeTool' = activeTool
        /\ magicToolMode' = magicToolMode
        /\ Render(FALSE, record)
  /\ UNCHANGED <<variant, lastPos, timers, strokeNo, moves, gestured,
                 selectedTool>>

\* a stroke end that puts the mode back to its initial value
stopDrawingResetting(pr, id) ==
  /\ classified' = <<>>
  /\ IF ~isDrawing
     THEN /\ UNCHANGED <<isDrawing, gesturePoints, annotations>>
          /\ calls' = <<>>
          /\ activeTool' = activeTool
          /\ magicToolMode' = magicToolMode
          /\ Render(FALSE, FALSE)
     ELSE LET annotation ==
                Annotation(id, AnnotationTypeOf(activeTool, stop_magicToolMode),
                           EffectivePressure(pr), lastPos)
              record == Records(activeTool)
              newAnnotations == NewAnnotations(annotations, annotation)
          IN /\ isDrawing' = FALSE
             /\ gesturePoints' = <<>>
             /\ annotations' = IF record THEN newAnnotations ELSE annotations
             /\ calls' = IF record
                         THEN <<CallbackArg(newAnnotations, annotation)>>
                         ELSE <<>>
             /\ activeTool' = activeTool
             /\ magicToolMode' = "medium"
             /\ Render(FALSE, record)
  /\ UNCHANGED <<variant, lastPos, timers, strokeNo, moves, gestured,
                 selectedTool>>

\* the handler of onPointerUp and onPointerLeave
stopDrawing(pr, id) ==
  /\ classified' = <<>>
  /\ IF ~isDrawing
     THEN /\ UNCHANGED <<isDrawing, gesturePoints, annotations>>
          /\ calls' = <<>>
          /\ activeTool' = activeTool
          /\ magicToolMode' = magicToolMode
          /\ Render(FALSE, FALSE)
     ELSE LET effectiveTool == activeTool
              annotationType == AnnotationTypeOf(activeTool, stop_magicToolMode)
              annotation ==
                Annotation(id, annotationType, EffectivePressure(pr), lastPos)
              record == Records(effectiveTool)
              newAnnotations == NewAnnotations(annotations, annotation)
          IN /\ isDrawing' = FALSE
             /\ gesturePoints' = <<>>
             /\ annotations' = IF record THEN newAnnotations ELSE annotations
             /\ calls' = IF record
                         THEN <<CallbackArg(newAnnotations, annotation)>>
                         ELSE <<>>
             /\ activeTool' = activeTool
             /\ magicToolMode' = magicToolMode
             /\ Render(FALSE, record)
  /\ UNCHANGED <<variant, lastPos, timers, strokeNo, moves, gestured,
                 selectedTool>>

\* onPointerUp={stopDrawing}
onPointerUp(pr, id) == stopDrawing(pr, id)

\* a pointerleave handled without regard to the pressure of the event
onPointerLeaveUnreported(pr, id) == stopDrawing(0, id)

\* onPointerLeave={stopDrawing}
onPointerLeave(pr, id) == stopDrawing(pr, id)

\* a clear that also abandons the stroke in progress
handleClearCanvasEndingStroke ==
  /\ Len(annotations) # 0
  /\ annotations' = <<>>
  /\ calls' = << <<>> >>
  /\ classified' = <<>>
  /\ isDrawing' = FALSE
  /\ activeTool' = activeTool
  /\ magicToolMode' = magicToolMode
  /\ gesturePoints' = <<>>
  /\ Render(FALSE, TRUE)
  /\ UNCHANGED <<variant, lastPos, timers, strokeNo, moves, gestured,
                 selectedTool>>

\* a clear that does not notify the callback
handleClearCanvasSilent ==
  /\ Len(annotations) # 0
  /\ annotations' = <<>>
  /\ calls' = <<>>
  /\ classified' = <<>>
  /\ isDrawing' = isDrawing
  /\ activeTool' = activeTool
  /\ magicToolMode' = magicToolMode
  /\ gesturePoints' = gesturePoints
  /\ draw_gesturePoints' = draw_gesturePoints
  /\ draw_magicToolMode' = draw_magicToolMode
  /\ stop_magicToolMode' = magicToolMode
  /\ UNCHANGED <<variant, lastPos, timers, strokeNo, moves, gestured,
                 selectedTool>>

\* the Clear button; it is disabled while annotations is empty
handleClearCanvas ==
  /\ Len(annotations) # 0
  /\ annotations' = <<>>
  /\ calls' = << <<>> >>
  /\ classified' = <<>>
  /\ isDrawing' = isDrawing
  /\ activeTool' = activeTool
  /\ magicToolMode' = magicToolMode
  /\ gesturePoints' = gesturePoints
  /\ Render(FALSE, TRUE)
  /\ UNCHANGED <<variant, lastPos, timers, strokeNo, moves, gestured,
                 selectedTool>>

\* a toolbar button: onClick={() => setActiveTool(tool.id)}
setActiveTool(t) ==
  /\ activeTool' = t
  /\ selectedTool' = t
  /\ calls' = <<>>
  /\ classified' = <<>>
  /\ isDrawing' = isDrawing
  /\ magicToolMode' = magicToolMode
  /\ gesturePoints' = gesturePoints
  /\ Render(FALSE, FALSE)
  /\ UNCHANGED <<variant, annotations, lastPos, timers, strokeNo, moves,
               gestured>>

\* the setTimeout callback of draw (part0) fires; nothing cancels it
timerFires(t) ==
  /\ t \in timers
  /\ timers' = timers \ {t}
  /\ gesturePoints' = <<Sample(t.pos, t.stroke)>>
  /\ calls' = <<>>
  /\ classified' = <<>>
  /\ isDrawing' = isDrawing
  /\ activeTool' = activeTool
  /\ magicToolMode' = magicToolMode
  /\ Render(FALSE, FALSE)
  /\ UNCHANGED <<variant, annotations, lastPos, strokeNo, moves, gestured,
                 selectedTool>>

\* the detectors applied to a window, apart from the pointer handlers
detectGesture(pts) ==
  /\ classified' = pts
  /\ UNCHANGED <<variant, activeTool, annotations, isDrawing, lastPos,
                 gesturePoints, magicToolMode, draw_gesturePoints,
                 draw_magicToolMode, stop_magicToolMode, timers, strokeNo,
                 moves, calls, gestured, selectedTool>>

\* the pointer events of the annotation canvas, with inputs from the given
\* sets (strokes start in starts and move over points; ids are the values
\* <<Date.now(), Math.random()>> can take at the end of the stroke);
\* maxStrokes and maxMoves bound the strokes started and the samples
\* appended in a run.  One pointer: pointerdown arrives only while no stroke
\* is in progress (a pointerup or pointerleave precedes the next pointerdown)
PointerEvents(starts, points, pressures, flips, ids, maxStrokes, maxMoves) ==
  \/ \E p \in starts, pr \in pressures, flipped \in flips :
       strokeNo < maxStrokes /\ ~isDrawing /\ startDrawing(p, pr, flipped)
  \/ \E p \in points, pr \in pressures :
       moves < maxMoves /\ draw(p, pr)
  \/ \E pr \in pressures, id \in ids : onPointerUp(pr, id)
  \/ \E pr \in pressures, id \in ids : onPointerLeave(pr, id)

\* the toolbar
Toolbar(tools) ==
  \/ handleClearCanvas
  \/ \E t \in tools : setActiveTool(t)

Timers == \E t \in timers : timerFires(t)

\* Date.now() and Math.random() at the end of the stroke in progress, for a
\* clock that advances from stroke to stroke and one value of the generator
StrokeClock == {<<strokeNo, 0>>}

\* Strokes with every tool and every pointer input; the window stays below
\* the shortest length on which a detector can be positive
Next ==
  \/ PointerEvents(Points, Points, Pressures, BOOLEAN, StrokeClock,
                   MaxStrokes, MaxMoves)
  \/ Toolbar(Tools)

Spec == Init /\ [][Next]_vars

\* Several strokes at one position, with every tool
NextHistory ==
  \/ PointerEvents(Origin, Origin, Pressures, {FALSE}, StrokeClock,
                   HistoryStrokes, HistoryMoves)
  \/ Toolbar(Tools)

SpecHistory == Init /\ [][NextHistory]_vars

\* Strokes long enough for gestures, started at the origin and drawn with
\* the magic tool and one other tool
NextGesture ==
  \/ PointerEvents(Origin, Points, GesturePressures, {FALSE}, StrokeClock,
                   GestureStrokes, GestureMoves)
  \/ Toolbar(GestureTools)
  \/ Timers

SpecGesture == Init /\ [][NextGesture]_vars

\* The same with a further stroke after the one with the gesture
NextTimer ==
  \/ PointerEvents(Origin, Points, GesturePressures, {FALSE}, StrokeClock,
                   TimerStrokes, GestureMoves)
  \/ Toolbar(GestureTools)
  \/ Timers

SpecTimer == Init /\ [][NextTimer]_vars

\* One long stroke over a single position, to fill the window
NextWindow ==
  \/ PointerEvents(Origin, Origin, GesturePressures, {FALSE}, StrokeClock,
                   WindowStrokes, WindowMoves)
  \/ Toolbar(GestureTools)

SpecWindow == Init /\ [][NextWindow]_vars

\* One stroke between two positions, long enough for two gestures, in the
\* variant that has the 500 ms timer
InitCooldown == Init /\ variant = "part0"

NextCooldown ==
  \/ PointerEvents(Origin, Diagonal, GesturePressures, {FALSE}, StrokeClock,
                   CooldownStrokes, CooldownMoves)
  \/ Toolbar(GestureTools)
  \/ Timers

SpecCooldown == InitCooldown /\ [][NextCooldown]_vars

\* The same stroke started with a hard press
NextReturn ==
  \/ PointerEvents(Origin, Diagonal, HardPressures, {FALSE}, StrokeClock,
                   CooldownStrokes, CooldownMoves)
  \/ Toolbar(GestureTools)
  \/ Timers

SpecReturn == InitCooldown /\ [][NextReturn]_vars

\* Date.now() reads the millisecond of the first stroke end or a later one,
\* Math.random() any of its values
RepeatingClock == {1, strokeNo} \X Randoms

\* Strokes at one position that may end within the same millisecond
NextIds ==
  \/ PointerEvents(Origin, Origin, GesturePressures, {FALSE}, RepeatingClock,
                   IdStrokes, IdMoves)
  \/ Toolbar(GestureTools)

SpecIds == Init /\ [][NextIds]_vars

\* The detectors alone: on every window of up to DetectLen samples over two
\* positions, built sample by sample, and on the circle, rectangle and
\* sawtooth paths
NextDetect ==
  \/ \E p \in Diagonal :
       /\ Len(classified) < DetectLen
       /\ \A i \in 1..Len(classified) :
            <<classified[i].x, classified[i].y>> \in Diagonal
       /\ detectGesture(Append(classified, Sample(p, 0)))
  \/ \E path \in ShapePaths : detectGesture(path)

SpecDetect == Init /\ [][NextDetect]_vars

----------------------------------------------------------------------------
(* Properties *)

Last(seq) == seq[Len(seq)]
RecordingTools == {"magic", "high", "medium", "low", "neutral"}
\* a step that ends the stroke in progress (pointerup or pointerleave)
StrokeEnds == isDrawing /\ ~isDrawing'
\* newGesturePoints.slice(-20)
WindowCapacity == 20

\* C1: a stroke that ends with the tool magic, high, medium, low or neutral
\* adds exactly one annotation; while the stroke is in progress the set is
\* only left alone or cleared; and no event arriving while no stroke is in
\* progress (a pointerleave after the pointerup) adds an annotation.
C1_OneAnnotationPerStroke ==
  [][/\ (StrokeEnds /\ activeTool \in RecordingTools)
          => Len(annotations') = Len(annotations) + 1
     /\ (isDrawing /\ isDrawing')
          => (annotations' = annotations \/ annotations' = <<>>)
     /\ ~isDrawing => Len(annotations') <= Len(annotations)]_vars

C1_Witness ==
  /\ ~isDrawing
  /\ strokeNo = 1
  /\ moves = 2
  /\ Len(annotations) = 1
  /\ calls = <<annotations>>
  /\ activeTool = "neutral"

\* C2: a stroke that ends while the tool is eraser or pan leaves the
\* annotations unchanged and does not call onAnnotationsChange.
C2_NoAnnotationForEraserOrPan ==
  [][(StrokeEnds /\ activeTool \in {"eraser", "pan"})
       => (annotations' = annotations /\ calls' = <<>>)]_vars

\* C3: with the magic tool, the annotation recorded at the end of a stroke
\* has the category magicToolMode has at that moment, also after a gesture
\* transition in the stroke.
C3_CategoryIsModeAtStrokeEnd ==
  [][(StrokeEnds /\ activeTool = "magic")
       => /\ Len(annotations') = Len(annotations) + 1
          /\ Last(annotations').type = magicToolMode]_vars

\* the stroke started medium (no pressure reported), a circle switched it
\* to high, and the stroke was recorded as high
C3_Witness ==
  /\ variant = "canvas"
  /\ ~isDrawing
  /\ gestured
  /\ activeTool = "magic"
  /\ calls = <<annotations>>
  /\ Len(annotations) > 0
  /\ Last(annotations).type = "high"

\* C4: a stroke that ends with the tool high, medium, low or neutral is
\* recorded with that tool as category.
C4_CategoryIsSelectedTool ==
  [][(StrokeEnds /\ activeTool \in {"high", "medium", "low", "neutral"})
       => /\ Len(annotations') = Len(annotations) + 1
          /\ Last(annotations').type = activeTool]_vars

C4_Witness ==
  /\ ~isDrawing
  /\ activeTool = "low"
  /\ magicToolMode = "high"
  /\ calls = <<annotations>>
  /\ Len(annotations) > 0
  /\ Last(annotations).type = "low"
  /\ Last(annotations).pressure = 7

\* C5: a step leaves the annotations unchanged, appends exactly one
\* annotation behind the unchanged earlier ones, or empties the set.
C5_AppendOrClearOnly ==
  [][\/ annotations' = annotations
     \/ /\ Len(annotations') = Len(annotations) + 1
        /\ SubSeq(annotations', 1, Len(annotations)) = annotations
     \/ annotations' = <<>>]_vars

C5_Witness ==
  /\ Len(annotations) = 2
  /\ calls = <<annotations>>
  /\ annotations[1] # annotations[2]

\* C6: handleClearCanvas leaves the annotations empty and calls
\* onAnnotationsChange exactly once, with the empty set.
C6_ClearEmptiesAndNotifies ==
  [][handleClearCanvas
       => (annotations' = <<>> /\ Len(calls') = 1 /\ calls'[1] = <<>>)]_vars

C6_Witness ==
  /\ calls = << <<>> >>
  /\ annotations = <<>>
  /\ strokeNo = 2
  /\ isDrawing

\* C7: a step that records a stroke calls onAnnotationsChange exactly once,
\* with the complete set after the append; startDrawing and draw never call
\* it.
C7_CallbackGetsCompleteSet ==
  [][/\ Len(annotations') = Len(annotations) + 1
          => (calls' = <<annotations'>>
              /\ SubSeq(calls'[1], 1, Len(annotations)) = annotations)
     /\ (strokeNo' # strokeNo \/ moves' # moves) => calls' = <<>>
     /\ (\E p \in Points, pr \in Pressures, f \in BOOLEAN :
           startDrawing(p, pr, f) \/ draw(p, pr)) => calls' = <<>>]_vars

C7_Witness ==
  /\ Len(annotations) = 2
  /\ Len(calls) = 1
  /\ calls[1] = annotations
  /\ ~isDrawing
  /\ moves > 0

\* C8: the window holds at most WindowCapacity samples, and so does the
\* window handed to the detectors.
C8_WindowBounded ==
  /\ Len(gesturePoints) <= WindowCapacity
  /\ Len(classified) <= WindowCapacity

\* C9: during a stroke, every sample of the window, and of the window handed
\* to the detectors, was captured in that stroke.
C9_WindowOfCurrentStroke ==
  /\ isDrawing =>
       \A i \in 1..Len(gesturePoints) : gesturePoints[i].stroke = strokeNo
  /\ \A i \in 1..Len(classified) : classified[i].stroke = strokeNo

\* C10: a timer callback runs only during the stroke that scheduled it.
C10_TimerOnlyInItsStroke ==
  [][\A t \in timers :
       timerFires(t) => (isDrawing /\ t.stroke = strokeNo)]_vars

C14_StartModeFromPressure ==
  [][\A p \in Points, pr \in Pressures, f \in BOOLEAN :
       (activeTool = "magic" /\ startDrawing(p, pr, f))
         => magicToolMode' = IF pr >= 7 THEN "high" ELSE "medium"]_vars

C14_Witness ==
  /\ isDrawing
  /\ moves = 0
  /\ activeTool = "magic"
  /\ magicToolMode = "high"
  /\ Len(gesturePoints) = 1

\* C15: pointerleave and pointerup are the same transition, and when a
\* stroke is in progress either one ends it and empties the window.
C15_LeaveIsUp ==
  [][\A pr \in Pressures, id \in StrokeClock :
       /\ onPointerLeave(pr, id) <=> onPointerUp(pr, id)
       /\ (isDrawing /\ (onPointerLeave(pr, id) \/ onPointerUp(pr, id)))
            => (~isDrawing' /\ gesturePoints' = <<>>)]_vars

C15_Witness ==
  /\ ~isDrawing
  /\ gesturePoints = <<>>
  /\ strokeNo = 1
  /\ moves > 0
  /\ activeTool = "medium"
  /\ calls = <<annotations>>
  /\ Len(annotations) = 1
  /\ Last(annotations).pressure = 7

\* C16: stopDrawing leaves magicToolMode unchanged.
C16_StopKeepsMode ==
  [][(\E pr \in Pressures, id \in StrokeClock : stopDrawing(pr, id))
       => magicToolMode' = magicToolMode]_vars

\* the stroke was recorded as high and the mode is still high
C16_Witness ==
  /\ ~isDrawing
  /\ activeTool = "magic"
  /\ magicToolMode = "high"
  /\ calls = <<annotations>>
  /\ Len(annotations) = 1
  /\ Last(annotations).type = "high"

\* C17: a detector is negative on every window with fewer samples than its
\* minimum (circle 6 and 12, square 8 and 12, zig-zag 6 and 6 samples in the
\* two variants), and a draw whose window has fewer than 6 samples leaves
\* magicToolMode unchanged.
C17_ShortWindowsNotDetected ==
  [][/\ classified' # <<>> =>
          /\ Len(classified') < (IF variant = "canvas" THEN 6 ELSE 12)
               => ~detectCircleGesture(variant, classified')
          /\ Len(classified') < (IF variant = "canvas" THEN 8 ELSE 12)
               => ~detectSquareGesture(variant, classified')
          /\ Len(classified') < 6
               => ~detectZigZagGesture(variant, classified')
     /\ (moves' # moves /\ Len(classified') < 6)
          => magicToolMode' = magicToolMode]_vars

\* the detectors ran on five samples that return to the start and span 40
\* pixels both ways, and the mode did not change
C17_Witness ==
  /\ variant = "canvas"
  /\ isDrawing
  /\ ~gestured
  /\ Len(classified) = 5
  /\ classified[5].x = classified[1].x
  /\ classified[5].y = classified[1].y
  /\ SeqMaxX(classified) - SeqMinX(classified) >= 25 * Unit
  /\ SeqMaxY(classified) - SeqMinY(classified) >= 25 * Unit

\* the cooldown that a gesture transition starts has not elapsed.  The
\* events of a stroke may follow each other as fast as the devices deliver
\* them, so a whole stroke can lie within one interval; in the variant with
\* the 500 ms timer the interval has elapsed once that timer has fired
CooldownRunning ==
  /\ isDrawing
  /\ gestured
  /\ variant = "part0" => \E t \in timers : t.stroke = strokeNo

\* C11: while the cooldown of a gesture transition is running, no step of
\* the same stroke changes magicToolMode again.
C11_NoTransitionInCooldown ==
  [][(CooldownRunning /\ isDrawing')
       => magicToolMode' = magicToolMode]_vars

\* C13: the classification of a window is low when the zig-zag detector is
\* positive, whatever the other two report; high when the circle detector
\* is positive and the zig-zag detector is not; medium only when the square
\* detector alone is positive.
C13_ZigZagCircleSquare ==
  classified # <<>> =>
    LET z == detectZigZagGesture(variant, classified)
        c == detectCircleGesture(variant, classified)
        q == detectSquareGesture(variant, classified)
        r == ClassifyGesture(variant, classified)
    IN /\ z => r = "low"
       /\ (c /\ ~z) => r = "high"
       /\ (r = "medium") <=> (q /\ ~z /\ ~c)

\* a window on which all three detectors are positive
C13_Witness ==
  /\ classified # <<>>
  /\ detectZigZagGesture(variant, classified)
  /\ detectCircleGesture(variant, classified)
  /\ detectSquareGesture(variant, classified)

\* C18: on 40 points evenly spaced on a circle of radius 50 that closes
\* within 5 pixels, the circle detector is positive and the square and
\* zig-zag detectors are negative.
C18_CirclePathIsCircle ==
  classified \in CirclePaths =>
    /\ detectCircleGesture(variant, classified)
    /\ ~detectSquareGesture(variant, classified)
    /\ ~detectZigZagGesture(variant, classified)

\* C19: a closed, evenly sampled rectangle is classified as a square
\* (medium).
C19_RectanglePathIsSquare ==
  classified \in RectanglePaths =>
    ClassifyGesture(variant, classified) = "medium"

\* C20: on a sawtooth of one amplitude the zig-zag detector is positive and
\* the circle and square detectors are negative.
C20_SawtoothPathIsZigZag ==
  classified \in SawtoothPaths =>
    /\ detectZigZagGesture(variant, classified)
    /\ ~detectCircleGesture(variant, classified)
    /\ ~detectSquareGesture(variant, classified)

\* the samples lie on one straight line, in the order of the line
MonotoneLine(pts) ==
  LET a == pts[1]
      b == pts[Len(pts)]
      ex == b.x - a.x
      ey == b.y - a.y
  IN /\ ex # 0 \/ ey # 0
     /\ \A i \in 1..Len(pts) :
          (pts[i].x - a.x) * ey - (pts[i].y - a.y) * ex = 0
     /\ \A i \in 1..(Len(pts) - 1) :
          (pts[i + 1].x - pts[i].x) * ex + (pts[i + 1].y - pts[i].y) * ey >= 0

\* C21: on a window whose samples lie on one straight line in monotone
\* order, the circle, square and zig-zag detectors are all negative.
C21_StraightLineNotDetected ==
  (classified # <<>> /\ MonotoneLine(classified)) =>
    /\ ~detectCircleGesture(variant, classified)
    /\ ~detectSquareGesture(variant, classified)
    /\ ~detectZigZagGesture(variant, classified)

\* C23: the annotations of the set have pairwise distinct ids.
C23_DistinctIds ==
  \A i, j \in 1..Len(annotations) :
    i # j => annotations[i].id # annotations[j].id

\* C22: an event that reports no pressure counts with pressure 0.5: such a
\* startDrawing under the magic tool sets magicToolMode to medium, and the
\* annotation recorded by such a stroke end has pressure 0.5.
C22_UnreportedPressureIsHalf ==
  [][/\ \A p \in Points, f \in BOOLEAN :
          (activeTool = "magic" /\ startDrawing(p, 0, f))
            => magicToolMode' = "medium"
     /\ \A id \in StrokeClock :
          (stopDrawing(0, id) /\ Len(annotations') = Len(annotations) + 1)
            => Last(annotations').pressure = 5]_vars

\* a magic stroke with moves, recorded as medium with pressure 0.5
C22_Witness ==
  /\ ~isDrawing
  /\ activeTool = "magic"
  /\ magicToolMode = "medium"
  /\ moves > 0
  /\ calls = <<annotations>>
  /\ Len(annotations) = 1
  /\ Last(annotations).pressure = 5
  /\ Last(annotations).type = "medium"

\* C25: as long as no gesture transition has reset the window in the
\* stroke, a pointermove appends its sample to the window (of which the
\* last WindowCapacity samples may be kept), and the window handed to the
\* detectors is that window.
C25_MoveAppendsToWindow ==
  [][\A p \in Points, pr \in Pressures :
       (draw(p, pr) /\ moves' # moves /\ ~gestured') =>
         LET full == Append(gesturePoints, Sample(p, strokeNo))
         IN /\ gesturePoints' \in {full, Slice20(full)}
            /\ classified' \in {<<>>, full, Slice20(full)}]_vars

\* C24: a pointermove of a magic stroke whose window is classified with a
\* category other than the current magicToolMode sets magicToolMode to that
\* category and leaves in the window no sample but the one of this event.
C24_DetectionSwitchesAndResets ==
  [][(moves' # moves /\ activeTool = "magic" /\ classified' # <<>>) =>
       LET r == ClassifyGesture(variant, classified')
       IN (r # "none" /\ r # magicToolMode) =>
            /\ magicToolMode' = r
            /\ \A i \in 1..Len(gesturePoints') :
                 gesturePoints'[i] = Sample(lastPos', strokeNo)]_vars

\* the stroke in progress was started by a flipped pen
Flipped == isDrawing /\ activeTool = "eraser" /\ selectedTool # "eraser"

\* C26: a strokeStart from a flipped pen leaves magicToolMode unchanged;
\* the stroke it starts records no annotation; and when the stroke has
\* ended the active tool is the tool selected in the toolbar.
C26_FlippedPenErasesOneStroke ==
  [][/\ (\E p \in Points, pr \in Pressures : startDrawing(p, pr, TRUE))
          => magicToolMode' = magicToolMode
     /\ (StrokeEnds /\ Flipped) => annotations' = annotations
     /\ StrokeEnds => activeTool' = selectedTool]_vars

C28_AnchorIsLastSample ==
  [][/\ \A p \in Points, pr \in Pressures :
          /\ (strokeNo' # strokeNo /\ \E f \in BOOLEAN : startDrawing(p, pr, f))
               => lastPos' = p
          /\ (moves' # moves /\ draw(p, pr)) => lastPos' = p
     /\ (strokeNo' = strokeNo /\ moves' = moves) => lastPos' = lastPos
     /\ \A pr \in Pressures, id \in StrokeClock :
          (stopDrawing(pr, id) /\ Len(annotations') = Len(annotations) + 1)
            => /\ Last(annotations').x = lastPos[1]
               /\ Last(annotations').y = lastPos[2]
               /\ Last(annotations').pressure = IF pr = 0 THEN 5 ELSE pr]_vars

\* a stroke of two moves that ended at (40, 40) with pressure 0.7 and is
\* anchored there
C28_Witness ==
  /\ ~isDrawing
  /\ moves = 2
  /\ calls = <<annotations>>
  /\ Len(annotations) = 1
  /\ Last(annotations).x = 40 * Unit
  /\ Last(annotations).y = 40 * Unit
  /\ Last(annotations).pressure = 7
  /\ lastPos = <<40 * Unit, 40 * Unit>>

\* C29: magicToolMode is high, medium or low in every state, and the
\* annotation a stroke end records under the magic tool has one of these
\* three categories.
C29_ModeIsACategory ==
  [][/\ magicToolMode \in {"high", "medium", "low"}
     /\ magicToolMode' \in {"high", "medium", "low"}
     /\ (StrokeEnds /\ activeTool = "magic")
          => /\ Len(annotations') = Len(annotations) + 1
             /\ Last(annotations').type \in {"high", "medium", "low"}]_vars

\* a magic stroke that a zig-zag turned to low has been recorded as low
C29_Witness ==
  /\ ~isDrawing
  /\ activeTool = "magic"
  /\ gestured
  /\ magicToolMode = "low"
  /\ calls = <<annotations>>
  /\ Len(annotations) = 1
  /\ Last(annotations).type = "low"

\* C30: after a strokeStart under the magic tool magicToolMode is high or
\* medium, whatever it was before; and magicToolMode becomes low only in a
\* pointermove of a magic stroke whose window the zig-zag detector accepts.
C30_StartLeavesLow ==
  [][/\ (strokeNo' # strokeNo /\ activeTool = "magic")
          => magicToolMode' \in {"high", "medium"}
     /\ (magicToolMode' = "low" /\ magicToolMode # "low")
          => /\ isDrawing
             /\ activeTool = "magic"
             /\ moves' # moves
             /\ detectZigZagGesture(variant, classified')]_vars

\* the first stroke ended low, and the second magic stroke has just started
\* with the mode medium
C30_Witness ==
  /\ isDrawing
  /\ strokeNo = 2
  /\ activeTool = "magic"
  /\ magicToolMode = "medium"
  /\ Len(gesturePoints) = 1
  /\ Len(annotations) = 1
  /\ annotations[1].type = "low"
  /\ annotations[1].id[1] = 1

\* C31: a pointermove, pointerup or pointerleave handled while no stroke is in
\* progress changes nothing: gesturePoints, magicToolMode and annotations keep
\* their values, no stroke begins and onAnnotationsChange is not called.
C31_IdleEventsAreNoOps ==
  [][(/\ ~isDrawing
      /\ \/ \E p \in Points, pr \in Pressures : draw(p, pr)
         \/ \E pr \in Pressures, id \in StrokeClock : onPointerUp(pr, id)
         \/ \E pr \in Pressures, id \in StrokeClock : onPointerLeave(pr, id))
       => /\ gesturePoints' = gesturePoints
          /\ magicToolMode' = magicToolMode
          /\ annotations' = annotations
          /\ isDrawing' = isDrawing
          /\ calls' = <<>>]_vars

\* a magic stroke has been recorded, and an event handled after its end has
\* left the record and the mode as they were and called nothing
C31_Witness ==
  /\ ~isDrawing
  /\ strokeNo = 1
  /\ moves = 2
  /\ activeTool = "magic"
  /\ selectedTool = "magic"
  /\ magicToolMode = "high"
  /\ gesturePoints = <<>>
  /\ Len(annotations) = 1
  /\ calls = <<>>

\* C32: a pointerdown under the pan tool begins no stroke: afterwards no
\* stroke is in progress, none has been counted, the tool is still pan, and
\* gesturePoints, magicToolMode and annotations keep their values.
C32_PanStartsNoStroke ==
  [][(/\ activeTool = "pan"
      /\ ~isDrawing
      /\ \E p \in Points, pr \in Pressures, flipped \in BOOLEAN :
           startDrawing(p, pr, flipped))
       => /\ ~isDrawing'
          /\ strokeNo' = strokeNo
          /\ activeTool' = "pan"
          /\ gesturePoints' = gesturePoints
          /\ magicToolMode' = magicToolMode
          /\ annotations' = annotations]_vars

\* pan is selected and, with pointerdown possible all along, no stroke has
\* begun and nothing has been recorded
C32_Witness ==
  /\ activeTool = "pan"
  /\ selectedTool = "pan"
  /\ ~isDrawing
  /\ strokeNo = 0
  /\ magicToolMode = "medium"
  /\ gesturePoints = <<>>
  /\ annotations = <<>>
  /\ calls = <<>>

\* C33: when the detectors of a pointermove are positive with the category
\* that magicToolMode already has, there is no transition: magicToolMode is
\* unchanged, gesturePoints is the window with the appended sample (not the
\* reset one) and no timer is scheduled.
C33_SameCategoryNoTransition ==
  [][(/\ moves' # moves
      /\ classified' # <<>>
      /\ ClassifyGesture(variant, classified') = magicToolMode)
       => /\ magicToolMode' = magicToolMode
          /\ gesturePoints' = IF variant = "canvas" THEN classified'
                                                   ELSE Slice20(classified')
          /\ timers' = timers]_vars

\* C34: handleClearCanvas changes the annotations only: magicToolMode, the
\* active tool, isDrawing and gesturePoints keep their values; and a stroke of
\* a recording tool that ends while the annotations are empty, as after a
\* clear in mid-stroke, leaves exactly one annotation.
C34_ClearLeavesStrokeAlone ==
  [][/\ handleClearCanvas
          => /\ annotations' = <<>>
             /\ magicToolMode' = magicToolMode
             /\ activeTool' = activeTool
             /\ isDrawing' = isDrawing
             /\ gesturePoints' = gesturePoints
     /\ (StrokeEnds /\ annotations = <<>> /\ activeTool \in RecordingTools)
          => /\ Len(annotations') = 1
             /\ calls' = <<annotations'>>]_vars

\* the record of the first stroke has been cleared while the second stroke, a
\* magic one that began with high, was in progress with two samples in its
\* window
C34_Witness ==
  /\ isDrawing
  /\ strokeNo = 2
  /\ moves = 1
  /\ activeTool = "magic"
  /\ magicToolMode = "high"
  /\ Len(gesturePoints) = 2
  /\ gesturePoints[2].stroke = 2
  /\ annotations = <<>>
  /\ calls = << <<>> >>

====
